---- MODULE Spec2Model ----
(***************************************************************************)
(* Model of ampel/plot/utils.py (Ampel-plots): the render envelope         *)
(* (mplfig_to_svg_dict, decompress_svg_dict), the SVG composer (stack_svg) *)
(* and the SVG rescaler (rescale).                                         *)
(*                                                                         *)
(* Python values are records [type, val].  A str is a sequence of          *)
(* characters (one-character strings; the token "U+00E9" stands for the    *)
(* single non-ASCII character e-acute), bytes is a sequence of integers,   *)
(* a dict is a function from its keys to values.                           *)
(***************************************************************************)
EXTENDS Integers, Sequences, FiniteSets, TLC

VARIABLES
    inputs,      \* what the caller has at hand: the rendered text and the
                 \* envelope's fields, the documents to stack, the one to rescale
    op,          \* name of the last function called ("init" before any call)
    svg_dict,    \* the object the caller holds and passes to decompress_svg_dict
    exc,         \* exception raised by the last call ("None" when it returned)
    given,       \* compress mode and result of the call that built svg_dict
    calls,       \* decompress_svg_dict calls made on the object held
    accessed,    \* last decompress_svg_dict call evaluated svg_dict['svg']
    decompressed,\* decompress_str invocations made by the last call
    stacked,     \* last stack_svg call: its arguments and the figure built
    rescaled     \* chain of rescale calls: <<[svg, scale, size, out]>>

vars == <<inputs, op, svg_dict, exc, given, calls, accessed, decompressed, stacked, rescaled>>

----------------------------------------------------------------------------
(* Bounds *)

\* longest figure text rendered
MaxLen == 2
\* most decompress_svg_dict calls made on one object, and longest rescale chain
MaxCalls == 3

----------------------------------------------------------------------------
(* Python values *)

Str(cs) == [type |-> "str", val |-> cs]
Bytes(bs) == [type |-> "bytes", val |-> bs]
List(xs) == [type |-> "list", val |-> xs]
Dict(f) == [type |-> "dict", val |-> f]
None == [type |-> "NoneType", val |-> <<>>]

\* Python truthiness as used by `if tags:` and `if title:`
Truthy(v) == v.type /= "NoneType" /\ v.val /= <<>>

\* d[k] = v on a dict value
SetItem(d, k, v) ==
    Dict([x \in DOMAIN d.val \cup {k} |-> IF x = k THEN v ELSE d.val[x]])

Reverse(s) == [i \in 1..Len(s) |-> s[Len(s) + 1 - i]]

----------------------------------------------------------------------------
(* str.encode('utf8') and bytes.decode('utf8') *)

Alphabet == {"<", "s", "U+00E9"}

EncodeChar(c) ==
    CASE c = "<" -> <<60>>
      [] c = "s" -> <<115>>
      [] c = "t" -> <<116>>
      [] c = "f" -> <<102>>
      [] c = "g" -> <<103>>
      [] c = "U+00E9" -> <<195, 169>>

RECURSIVE EncodeUtf8(_)
EncodeUtf8(cs) ==
    IF cs = <<>> THEN <<>> ELSE EncodeChar(Head(cs)) \o EncodeUtf8(Tail(cs))

DecodeByte(b) ==
    CASE b = 60 -> "<"
      [] b = 115 -> "s"
      [] b = 116 -> "t"
      [] b = 102 -> "f"
      [] b = 103 -> "g"
      [] OTHER -> "?"

RECURSIVE DecodeUtf8(_)
DecodeUtf8(bs) ==
    IF bs = <<>> THEN <<>>
    ELSE IF Len(bs) >= 2 /\ bs[1] = 195 /\ bs[2] = 169
         THEN <<"U+00E9">> \o DecodeUtf8(SubSeq(bs, 3, Len(bs)))
         ELSE <<DecodeByte(Head(bs))>> \o DecodeUtf8(Tail(bs))

----------------------------------------------------------------------------
(* ampel.util.compression: compress(bytes, file_name) and decompress_str.  *)
(* The collaborator is an archive holding one member named file_name; it   *)
(* is modelled as a length-prefixed member name followed by the payload    *)
(* stored back to front, so that compression is neither the identity nor   *)
(* independent of the name, and decompress_str inverts it.                 *)

fcompress(payload, file_name) ==
    Bytes(<<Len(EncodeUtf8(file_name.val))>> \o EncodeUtf8(file_name.val)
          \o Reverse(payload.val))

\* an archive decompress_str can open
IsArchive(b) == Len(b.val) >= 1 /\ Len(b.val) >= 1 + b.val[1]

decompress_str(b) ==
    Str(DecodeUtf8(Reverse(SubSeq(b.val, 2 + b.val[1], Len(b.val)))))

----------------------------------------------------------------------------
(* mplfig_to_svg_dict.  text is imgdata.getvalue(), the SVG text savefig    *)
(* wrote; width, height, close, fig_include_title and logger act on the    *)
(* figure and the logger only and leave the record untouched.              *)

\* variant: the uncompressed text is kept whenever the svg is compressed
mplfig_to_svg_dict_keeps_str(text, file_name, title, tags, compress) ==
    LET r0 == Dict([k \in {"name"} |-> file_name])
        r1 == IF Truthy(tags) THEN SetItem(r0, "tag", tags) ELSE r0
        r2 == IF Truthy(title) THEN SetItem(r1, "title", title) ELSE r1
        r3 == SetItem(r2, "svg", fcompress(Bytes(EncodeUtf8(text.val)), file_name))
    IN  IF compress = 0
        THEN SetItem(r2, "svg", text)
        ELSE SetItem(r3, "svg_str", text)

mplfig_to_svg_dict(text, file_name, title, tags, compress) ==
    LET r0 == Dict([k \in {"name"} |-> file_name])
        r1 == IF Truthy(tags) THEN SetItem(r0, "tag", tags) ELSE r0
        r2 == IF Truthy(title) THEN SetItem(r1, "title", title) ELSE r1
        r3 == SetItem(r2, "svg", fcompress(Bytes(EncodeUtf8(text.val)), file_name))
    IN  IF compress = 0
        THEN SetItem(r2, "svg", text)
        ELSE IF compress = 2
             THEN SetItem(r3, "svg_str", text)
             ELSE r3

----------------------------------------------------------------------------
(* decompress_svg_dict: the outcome of one call on argument d: the         *)
(* exception raised, the argument after the call (mutated in place), and   *)
(* whether d['svg'] was evaluated and decompress_str invoked.              *)

Outcome(e, d, a, n) == [exc |-> e, obj |-> d, accessed |-> a, decompressed |-> n]

\* variant: no isinstance(svg_dict, dict) check
decompress_svg_dict_unchecked(d) ==
    IF d.type /= "dict" THEN Outcome("TypeError", d, TRUE, 0)
    ELSE IF "svg" \notin DOMAIN d.val THEN Outcome("KeyError", d, TRUE, 0)
    ELSE IF d.val["svg"].type = "bytes"
         THEN IF IsArchive(d.val["svg"])
              THEN Outcome("None", SetItem(d, "svg", decompress_str(d.val["svg"])), TRUE, 1)
              ELSE Outcome("BadZipFile", d, TRUE, 1)
         ELSE Outcome("None", d, TRUE, 0)

\* variant: a str 'svg' is turned back into bytes
decompress_svg_dict_toggles(d) ==
    IF d.type /= "dict" THEN Outcome("ValueError", d, FALSE, 0)
    ELSE IF "svg" \notin DOMAIN d.val THEN Outcome("KeyError", d, TRUE, 0)
    ELSE IF d.val["svg"].type = "bytes"
         THEN IF IsArchive(d.val["svg"])
              THEN Outcome("None", SetItem(d, "svg", decompress_str(d.val["svg"])), TRUE, 1)
              ELSE Outcome("BadZipFile", d, TRUE, 1)
         ELSE Outcome("None",
                      SetItem(d, "svg", Bytes(EncodeUtf8(d.val["svg"].val))), TRUE, 0)

\* variant: the bytes are decoded without being decompressed
decompress_svg_dict_decodes_only(d) ==
    IF d.type /= "dict" THEN Outcome("ValueError", d, FALSE, 0)
    ELSE IF "svg" \notin DOMAIN d.val THEN Outcome("KeyError", d, TRUE, 0)
    ELSE IF d.val["svg"].type = "bytes"
         THEN IF IsArchive(d.val["svg"])
              THEN Outcome("None", SetItem(d, "svg", Str(DecodeUtf8(d.val["svg"].val))), TRUE, 1)
              ELSE Outcome("BadZipFile", d, TRUE, 1)
         ELSE Outcome("None", d, TRUE, 0)

decompress_svg_dict(d) ==
    IF d.type /= "dict" THEN Outcome("ValueError", d, FALSE, 0)
    ELSE IF "svg" \notin DOMAIN d.val THEN Outcome("KeyError", d, TRUE, 0)
    ELSE IF d.val["svg"].type = "bytes"
         THEN IF IsArchive(d.val["svg"])
              THEN Outcome("None", SetItem(d, "svg", decompress_str(d.val["svg"])), TRUE, 1)
              ELSE Outcome("BadZipFile", d, TRUE, 1)
         ELSE Outcome("None", d, TRUE, 0)

----------------------------------------------------------------------------
(* Dimension strings and floats.  A float is held as an integer number of  *)
(* hundredths.  Every dimension and scale factor drawn below is a multiple *)
(* of a power of two (x.0, x.5, x.25), so that the sums and products the   *)
(* code forms are exact in binary floating point and str(float) prints     *)
(* exactly the digits computed here.                                       *)

Digits == {"0", "1", "2", "3", "4", "5", "6", "7", "8", "9"}

DigitVal(c) ==
    CASE c = "0" -> 0 [] c = "1" -> 1 [] c = "2" -> 2 [] c = "3" -> 3
      [] c = "4" -> 4 [] c = "5" -> 5 [] c = "6" -> 6 [] c = "7" -> 7
      [] c = "8" -> 8 [] c = "9" -> 9

DigitChar(d) ==
    CASE d = 0 -> "0" [] d = 1 -> "1" [] d = 2 -> "2" [] d = 3 -> "3"
      [] d = 4 -> "4" [] d = 5 -> "5" [] d = 6 -> "6" [] d = 7 -> "7"
      [] d = 8 -> "8" [] d = 9 -> "9"

RECURSIVE IntOf(_)
IntOf(cs) ==
    IF cs = <<>> THEN 0
    ELSE IntOf(SubSeq(cs, 1, Len(cs) - 1)) * 10 + DigitVal(cs[Len(cs)])

RECURSIVE IntStr(_)
IntStr(n) ==
    IF n < 10 THEN <<DigitChar(n)>> ELSE IntStr(n \div 10) \o <<DigitChar(n % 10)>>

\* index of the first c in cs, 0 when there is none
Find(cs, c) ==
    IF \E i \in 1..Len(cs) : cs[i] = c
    THEN CHOOSE i \in 1..Len(cs) : cs[i] = c /\ \A j \in 1..(i - 1) : cs[j] /= c
    ELSE 0

\* s.split('.')[0]
SplitDot0(cs) ==
    IF Find(cs, ".") = 0 THEN cs ELSE SubSeq(cs, 1, Find(cs, ".") - 1)

\* s.replace("pt", "")
RECURSIVE ReplacePt(_)
ReplacePt(cs) ==
    IF cs = <<>> THEN <<>>
    ELSE IF Len(cs) >= 2 /\ cs[1] = "p" /\ cs[2] = "t"
         THEN ReplacePt(SubSeq(cs, 3, Len(cs)))
         ELSE <<Head(cs)>> \o ReplacePt(Tail(cs))

\* float(s) accepts s: digits with at most one '.', and at least one digit
IsFloatLiteral(cs) ==
    LET ip == SplitDot0(cs)
        fp == IF Find(cs, ".") = 0 THEN <<>> ELSE SubSeq(cs, Find(cs, ".") + 1, Len(cs))
    IN  /\ \A i \in 1..Len(ip) : ip[i] \in Digits
        /\ \A i \in 1..Len(fp) : fp[i] \in Digits
        /\ Len(ip) + Len(fp) >= 1
        /\ Len(fp) <= 2

\* float(s), in hundredths
FloatOf(cs) ==
    LET ip == SplitDot0(cs)
        fp == IF Find(cs, ".") = 0 THEN <<>> ELSE SubSeq(cs, Find(cs, ".") + 1, Len(cs))
    IN  IntOf(ip) * 100
        + (IF Len(fp) = 0 THEN 0
           ELSE IF Len(fp) = 1 THEN DigitVal(fp[1]) * 10
           ELSE DigitVal(fp[1]) * 10 + DigitVal(fp[2]))

\* variant: an integral float printed without its fraction, as an int is
FloatStrIntegral(x) ==
    IF x % 100 = 0 THEN IntStr(x \div 100)
    ELSE IntStr(x \div 100) \o <<".">>
         \o (IF x % 10 = 0 THEN <<DigitChar((x % 100) \div 10)>>
             ELSE <<DigitChar((x % 100) \div 10), DigitChar(x % 10)>>)

\* str(x) of a float x: always a '.', and at least one digit after it
FloatStr(x) ==
    IntStr(x \div 100) \o <<".">>
    \o (IF x % 10 = 0 THEN <<DigitChar((x % 100) \div 10)>>
        ELSE <<DigitChar((x % 100) \div 10), DigitChar(x % 10)>>)

\* x * k of two floats
FloatMul(x, k) == (x * k) \div 100

----------------------------------------------------------------------------
(* SVG documents (svgutils.transform.SVGFigure): the root's width, height  *)
(* and viewBox attributes (None when unset) and the children appended.     *)

SVGFigure == [width |-> None, height |-> None, viewBox |-> None, body |-> <<>>]

\* su.transform.fromstring of a document declaring width w and height h
FromString(w, h) ==
    [width |-> Str(w), height |-> Str(h), viewBox |-> None,
     body |-> <<[kind |-> "root", of |-> 0, a |-> <<0, 0>>, b |-> <<0, 0>>]>>]

\* su.compose.Element(fig.getroot().root) of input n, moved to (x, y)
Element(n, x, y) == [kind |-> "group", of |-> n, a |-> <<x, y>>, b |-> <<0, 0>>]

\* su.compose.Line(((x1, y1), (x2, y2)))
Line(x1, y1, x2, y2) == [kind |-> "line", of |-> 0, a |-> <<x1, y1>>, b |-> <<x2, y2>>]

\* "0 0 %s %s" % (width, height)
ViewBoxOf(w, h) == Str(<<"0", " ", "0", " ">> \o w.val \o <<" ">> \o h.val)

----------------------------------------------------------------------------
(* stack_svg *)

\* variant: the comparison reversed
SmallerOf(str_a, a, str_b, b) == IF a < b THEN str_a ELSE str_b

\* str_a if a > b else str_b
LargerOf(str_a, a, str_b, b) == IF a > b THEN str_a ELSE str_b

\* variant: the line appended whether or not a separator was requested
AppendLineAlways(fig, el1, el2, separator, line) ==
    [fig EXCEPT !.body = fig.body \o <<el1, el2, line>>]

\* fig.append(el1); fig.append(el2); if separator: fig.append(Line(...))
AppendAll(fig, el1, el2, separator, line) ==
    [fig EXCEPT !.body =
        fig.body \o <<el1, el2>> \o (IF separator THEN <<line>> ELSE <<>>)]

stack_svg(svg1, svg2, horizontally, separator) ==
    LET str_w1 == svg1.width.val
        str_h1 == svg1.height.val
        str_w2 == svg2.width.val
        str_h2 == svg2.height.val
    IN  IF \E s \in {str_w1, str_h1, str_w2, str_h2} : ~IsFloatLiteral(ReplacePt(s))
        THEN [exc |-> "ValueError", fig |-> SVGFigure]
        ELSE
          LET w1 == FloatOf(ReplacePt(str_w1))
              h1 == FloatOf(ReplacePt(str_h1))
              w2 == FloatOf(ReplacePt(str_w2))
              h2 == FloatOf(ReplacePt(str_h2))
              el1 == Element(1, 0, 0)
              el2 == IF horizontally THEN Element(2, w1, 0) ELSE Element(2, 0, h1)
              height == IF horizontally
                        THEN Str(LargerOf(str_h1, h1, str_h2, h2))
                        ELSE Str(FloatStr(h1 + h2) \o <<"p", "t">>)
              width == IF horizontally
                       THEN Str(FloatStr(w1 + w2) \o <<"p", "t">>)
                       ELSE Str(LargerOf(str_w1, w1, str_w2, w2))
              fig == [SVGFigure EXCEPT !.height = height, !.width = width,
                                       !.viewBox = ViewBoxOf(width, height)]
              line == IF horizontally
                      THEN Line(w1, 0, w1, LargerOf(h1, h1, h2, h2))
                      ELSE Line(0, h1, LargerOf(w1, w1, w2, w2), h1)
          IN  [exc |-> "None", fig |-> AppendAll(fig, el1, el2, separator, line)]

----------------------------------------------------------------------------
(* rescale: the exception raised, the size handed to SVGFigure(w, h) and   *)
(* the document built.  SVGFigure(w, h) declares str(w) and str(h), and    *)
(* leaves an attribute unset when its value is 0 (`if width:`).            *)

Declared(x) == IF x = 0 THEN None ELSE Str(FloatStr(x))

rescale(svg, scale) ==
    IF svg.width.type /= "str" \/ svg.height.type /= "str"
    THEN [exc |-> "AttributeError", size |-> <<0, 0>>, out |-> SVGFigure]
    ELSE IF ~IsFloatLiteral(SplitDot0(svg.width.val))
            \/ ~IsFloatLiteral(SplitDot0(svg.height.val))
    THEN [exc |-> "ValueError", size |-> <<0, 0>>, out |-> SVGFigure]
    ELSE
      LET original_width == FloatOf(SplitDot0(svg.width.val))
          original_height == FloatOf(SplitDot0(svg.height.val))
          w == FloatMul(original_width, scale)
          h == FloatMul(original_height, scale)
          svg_st == [kind |-> "group", of |-> 0, a |-> <<0, 0>>, b |-> <<scale, scale>>]
      IN  [exc |-> "None", size |-> <<w, h>>,
           out |-> [SVGFigure EXCEPT !.width = Declared(w), !.height = Declared(h),
                                     !.body = <<svg_st>>]]

----------------------------------------------------------------------------
(* Inputs *)

Texts == {Str(cs) : cs \in UNION {[1..n -> Alphabet] : n \in 0..MaxLen}}
FileNames == {Str(<<"f">>), Str(<<"f", "g">>)}
Titles == {None, Str(<<>>), Str(<<"t">>)}
TagLists == {None, List(<<>>), List(<<Str(<<"t">>)>>)}
\* 0, 1, 2 are the documented modes; 3 stands for any other int a caller passes
CompressModes == {0, 1, 2, 3}

\* what a caller may hand to decompress_svg_dict besides a record built above
CallerValues ==
    { None, Str(<<"s">>), Bytes(<<60>>), List(<<>>),
      Dict([k \in {"name"} |-> Str(<<"f">>)]),
      Dict([k \in {"name", "svg"} |->
              IF k = "svg" THEN Bytes(<<9, 60>>) ELSE Str(<<"f">>)]),
      Dict([k \in {"name", "svg"} |->
              IF k = "svg" THEN List(<<>>) ELSE Str(<<"f">>)]) }

\* declared sizes of the documents handed to stack_svg
StackDims ==
    { <<"5", "0", "p", "t">>, <<"6", "0", "p", "t">>, <<"8", "0", "p", "t">>,
      <<"1", "0", "0", "p", "t">>, <<"1", "2", ".", "5", "p", "t">>,
      <<"6", "0", ".", "0", "p", "t">>, <<"1", "0", "0", "p", "x">> }

\* declared sizes of the documents handed to rescale
RescaleDims ==
    { <<"5">>, <<"6", "0", "0">>, <<"1", "2", ".", "5">>, <<"0", ".", "5">>,
      <<"1", "2", ".", "5", "p", "t">>, <<"6", "0", "0", "p", "x">> }

\* scale factors 0.5, 1.0 and 2.0, in hundredths
Scales == {50, 100, 200}

----------------------------------------------------------------------------------------------------------------------------------------
(* State machine.  The functions share no state, so each group is run     *)
(* under a specification of its own: the caller's inputs are fixed when    *)
(* the run starts, and the group's functions are then called on them in    *)
(* any order, any number of times.                                         *)

NoGiven == [compress |-> -1, record |-> None]
NoStack == [horizontally |-> FALSE, separator |-> FALSE, exc |-> "None", fig |-> SVGFigure]
NoDoc == FromString(<<"1">>, <<"1">>)

Quiet ==
    /\ op = "init"
    /\ svg_dict = None
    /\ exc = "None"
    /\ given = NoGiven
    /\ calls = 0
    /\ accessed = FALSE
    /\ decompressed = 0
    /\ stacked = NoStack
    /\ rescaled = <<>>

EnvelopeInit ==
    /\ inputs \in [text : Texts, file_name : FileNames, title : Titles, tags : TagLists,
                   svg1 : {NoDoc}, svg2 : {NoDoc}, svg : {NoDoc}]
    /\ Quiet

StackInit ==
    /\ inputs \in [text : {Str(<<>>)}, file_name : {Str(<<"f">>)}, title : {None},
                   tags : {None},
                   svg1 : {FromString(w, h) : w \in StackDims, h \in StackDims},
                   svg2 : {FromString(w, h) : w \in StackDims, h \in StackDims},
                   svg : {NoDoc}]
    /\ Quiet

RescaleInit ==
    /\ inputs \in [text : {Str(<<>>)}, file_name : {Str(<<"f">>)}, title : {None},
                   tags : {None}, svg1 : {NoDoc}, svg2 : {NoDoc},
                   svg : {FromString(w, h) : w \in RescaleDims, h \in RescaleDims}]
    /\ Quiet

MplfigToSvgDict(compress) ==
    LET ret == mplfig_to_svg_dict(inputs.text, inputs.file_name, inputs.title,
                                  inputs.tags, compress)
    IN  /\ op' = "mplfig_to_svg_dict"
        /\ svg_dict' = ret
        /\ exc' = "None"
        /\ given' = [compress |-> compress, record |-> ret]
        /\ calls' = 0
        /\ accessed' = FALSE
        /\ decompressed' = 0
        /\ UNCHANGED <<inputs, stacked, rescaled>>

\* decompress_svg_dict on the record the caller holds
DecompressSvgDict ==
    LET o == decompress_svg_dict(svg_dict)
    IN  /\ given /= NoGiven
        /\ calls < MaxCalls
        /\ op' = "decompress_svg_dict"
        /\ svg_dict' = o.obj
        /\ exc' = o.exc
        /\ calls' = calls + 1
        /\ accessed' = o.accessed
        /\ decompressed' = o.decompressed
        /\ UNCHANGED <<inputs, given, stacked, rescaled>>

\* decompress_svg_dict on a value mplfig_to_svg_dict did not build
DecompressSvgDictOf(v) ==
    LET o == decompress_svg_dict(v)
    IN  /\ op' = "decompress_svg_dict"
        /\ svg_dict' = o.obj
        /\ exc' = o.exc
        /\ given' = NoGiven
        /\ calls' = 1
        /\ accessed' = o.accessed
        /\ decompressed' = o.decompressed
        /\ UNCHANGED <<inputs, stacked, rescaled>>

\* decompress_svg_dict once more on that value
DecompressSvgDictAgain ==
    LET o == decompress_svg_dict(svg_dict)
    IN  /\ given = NoGiven
        /\ op = "decompress_svg_dict"
        /\ calls < MaxCalls
        /\ op' = "decompress_svg_dict"
        /\ svg_dict' = o.obj
        /\ exc' = o.exc
        /\ calls' = calls + 1
        /\ accessed' = o.accessed
        /\ decompressed' = o.decompressed
        /\ UNCHANGED <<inputs, given, stacked, rescaled>>

StackSvg(horizontally, separator) ==
    LET r == stack_svg(inputs.svg1, inputs.svg2, horizontally, separator)
    IN  /\ op' = "stack_svg"
        /\ exc' = r.exc
        /\ stacked' = [horizontally |-> horizontally, separator |-> separator,
                       exc |-> r.exc, fig |-> r.fig]
        /\ UNCHANGED <<inputs, svg_dict, given, calls, accessed, decompressed, rescaled>>

RescaleCall(svg, scale) ==
    LET r == rescale(svg, scale)
    IN  [svg |-> svg, scale |-> scale, exc |-> r.exc, size |-> r.size, out |-> r.out]

\* rescale of the caller's document
Rescale(scale) ==
    /\ op' = "rescale"
    /\ exc' = RescaleCall(inputs.svg, scale).exc
    /\ rescaled' = <<RescaleCall(inputs.svg, scale)>>
    /\ UNCHANGED <<inputs, svg_dict, given, calls, accessed, decompressed, stacked>>

\* rescale of the document the previous rescale returned
RescaleAgain(scale) ==
    /\ rescaled /= <<>>
    /\ Len(rescaled) < MaxCalls
    /\ rescaled[Len(rescaled)].exc = "None"
    /\ op' = "rescale"
    /\ exc' = RescaleCall(rescaled[Len(rescaled)].out, scale).exc
    /\ rescaled' = Append(rescaled, RescaleCall(rescaled[Len(rescaled)].out, scale))
    /\ UNCHANGED <<inputs, svg_dict, given, calls, accessed, decompressed, stacked>>

EnvelopeNext ==
    \/ \E compress \in CompressModes : MplfigToSvgDict(compress)
    \/ DecompressSvgDict
    \/ \E v \in CallerValues : DecompressSvgDictOf(v)
    \/ DecompressSvgDictAgain

StackNext ==
    \E horizontally \in BOOLEAN, separator \in BOOLEAN : StackSvg(horizontally, separator)

RescaleNext ==
    \/ \E scale \in Scales : Rescale(scale)
    \/ \E scale \in Scales : RescaleAgain(scale)

EnvelopeSpec == EnvelopeInit /\ [][EnvelopeNext]_vars
StackSpec == StackInit /\ [][StackNext]_vars
RescaleSpec == RescaleInit /\ [][RescaleNext]_vars

----------------------------------------------------------------------------
(* Properties of the render envelope (EnvelopeSpec) *)

HasKey(d, k) == d.type = "dict" /\ k \in DOMAIN d.val

\* equality of two Python objects, types first
SameObject(a, b) ==
    /\ a.type = b.type
    /\ IF a.type = "dict"
       THEN /\ DOMAIN a.val = DOMAIN b.val
            /\ \A k \in DOMAIN a.val :
                  a.val[k].type = b.val[k].type /\ a.val[k].val = b.val[k].val
       ELSE a.val = b.val

\* a record as SVGRecord declares it: a dict whose 'svg' is a str or bytes
IsRecord(d) == HasKey(d, "svg") /\ d.val["svg"].type \in {"str", "bytes"}

\* C1: the record mplfig_to_svg_dict returns obeys the compression-mode
\* contract: compress=0 gives 'svg' the uncompressed string and no 'svg_str';
\* compress=1 gives 'svg' the compressed bytes and no 'svg_str'; compress=2
\* gives 'svg' the compressed bytes and 'svg_str' the original text; so among
\* the three modes 'svg' is bytes exactly for modes 1 and 2.
C1_CompressionModeContract ==
    op = "mplfig_to_svg_dict" =>
      LET svg == svg_dict.val["svg"]
          packed == fcompress(Bytes(EncodeUtf8(inputs.text.val)), inputs.file_name)
      IN  /\ given.compress = 0 =>
                /\ svg.type = "str" /\ svg = inputs.text
                /\ ~HasKey(svg_dict, "svg_str")
          /\ given.compress = 1 =>
                /\ svg.type = "bytes" /\ svg = packed
                /\ ~HasKey(svg_dict, "svg_str")
          /\ given.compress = 2 =>
                /\ svg.type = "bytes" /\ svg = packed
                /\ HasKey(svg_dict, "svg_str")
                /\ svg_dict.val["svg_str"] = inputs.text
          /\ given.compress \in {0, 1, 2} =>
                (svg.type = "bytes" <=> given.compress \in {1, 2})

C1_Witness ==
    /\ op = "mplfig_to_svg_dict"
    /\ given.compress = 2
    /\ HasKey(svg_dict, "svg_str")
    /\ Len(inputs.text.val) = 2
    /\ HasKey(svg_dict, "title")

\* C2: decompress_svg_dict on the record built with compress=1 or compress=2
\* returns that record with only 'svg' replaced, by the string the figure was
\* rendered to, which is the 'svg' a compress=0 render holds.
C2_DecompressInvertsCompress ==
    (op = "decompress_svg_dict" /\ given.compress \in {1, 2}) =>
      /\ exc = "None"
      /\ SameObject(svg_dict, SetItem(given.record, "svg", inputs.text))
      /\ svg_dict.val["svg"]
           = mplfig_to_svg_dict(inputs.text, inputs.file_name, inputs.title,
                                inputs.tags, 0).val["svg"]

C2_Witness ==
    /\ op = "decompress_svg_dict"
    /\ given.compress = 2
    /\ calls = 1
    /\ decompressed = 1
    /\ svg_dict.val["svg"] = Str(<<"U+00E9", "s">>)

\* C3: a second decompress_svg_dict call on a record leaves it as the first
\* call left it, and a call on a record whose 'svg' is already a string
\* changes nothing and invokes no decompression.
C3_DecompressIdempotent ==
    [][ (op' = "decompress_svg_dict" /\ calls' = calls + 1 /\ given' = given
         /\ IsRecord(svg_dict))
        => /\ op = "decompress_svg_dict" => SameObject(svg_dict', svg_dict)
           /\ svg_dict.val["svg"].type = "str" =>
                 SameObject(svg_dict', svg_dict) /\ decompressed' = 0 ]_vars

C3_Witness ==
    /\ op = "decompress_svg_dict"
    /\ calls = 2
    /\ given.compress = 1
    /\ decompressed = 0
    /\ svg_dict.val["svg"].type = "str"

\* C4 as claimed: every argument that is not a valid record ends the call in
\* the ValueError, before 'svg' is accessed and before any decompression.
C4_InvalidRecordRaisesValueError ==
    (op = "decompress_svg_dict" /\ ~IsRecord(svg_dict)) =>
      (exc = "ValueError" /\ ~accessed /\ decompressed = 0)

\* C4 as amended: every argument that is not a dict ends the call in the
\* ValueError, before 'svg' is accessed and before any decompression.
C4_NonDictRaisesValueError ==
    (op = "decompress_svg_dict" /\ svg_dict.type /= "dict") =>
      (exc = "ValueError" /\ ~accessed /\ decompressed = 0)

C4_Witness ==
    /\ op = "decompress_svg_dict"
    /\ svg_dict.type = "bytes"
    /\ exc = "ValueError"

----------------------------------------------------------------------------
(* Properties of stack_svg (StackSpec) *)

Max(a, b) == IF a >= b THEN a ELSE b

\* numeric magnitude of a declared "...pt" dimension
Magnitude(dim) == FloatOf(ReplacePt(dim.val))

Stacked == op = "stack_svg" /\ exc = "None"

EndsWithPt(cs) == Len(cs) >= 2 /\ cs[Len(cs) - 1] = "p" /\ cs[Len(cs)] = "t"

\* C5: the width and height stack_svg declares have the magnitudes
\* width = w1+w2, height = max(h1,h2) when horizontal, and
\* width = max(w1,w2), height = h1+h2 when vertical.
C5_StackedSize ==
    Stacked =>
      LET w1 == Magnitude(inputs.svg1.width)
          h1 == Magnitude(inputs.svg1.height)
          w2 == Magnitude(inputs.svg2.width)
          h2 == Magnitude(inputs.svg2.height)
      IN  IF stacked.horizontally
          THEN /\ Magnitude(stacked.fig.width) = w1 + w2
               /\ Magnitude(stacked.fig.height) = Max(h1, h2)
          ELSE /\ Magnitude(stacked.fig.width) = Max(w1, w2)
               /\ Magnitude(stacked.fig.height) = h1 + h2

C5_Witness ==
    /\ Stacked
    /\ stacked.horizontally
    /\ inputs.svg1.height.val = <<"6", "0", "p", "t">>
    /\ inputs.svg2.height.val = <<"6", "0", ".", "0", "p", "t">>
    /\ inputs.svg1.width.val = <<"1", "2", ".", "5", "p", "t">>

\* the documents of the scenario: "100pt"x"50pt" and "80pt"x"60pt"
Scenario ==
    /\ inputs.svg1.width.val = <<"1", "0", "0", "p", "t">>
    /\ inputs.svg1.height.val = <<"5", "0", "p", "t">>
    /\ inputs.svg2.width.val = <<"8", "0", "p", "t">>
    /\ inputs.svg2.height.val = <<"6", "0", "p", "t">>

\* C6 as claimed: the scenario stacked vertically without separator declares
\* width "100pt" and height "110pt"; horizontally, width "180pt" and height
\* "60pt".
C6_ScenarioIntegralText ==
    (Stacked /\ Scenario /\ ~stacked.separator) =>
      IF stacked.horizontally
      THEN /\ stacked.fig.width.val = <<"1", "8", "0", "p", "t">>
           /\ stacked.fig.height.val = <<"6", "0", "p", "t">>
      ELSE /\ stacked.fig.width.val = <<"1", "0", "0", "p", "t">>
           /\ stacked.fig.height.val = <<"1", "1", "0", "p", "t">>

\* C6 as amended: the scenario stacked vertically without separator declares
\* width "100pt" and height "110.0pt"; horizontally, width "180.0pt" and
\* height "60pt": the summed dimension is the text of a float.
C6_ScenarioFloatText ==
    (Stacked /\ Scenario /\ ~stacked.separator) =>
      IF stacked.horizontally
      THEN /\ stacked.fig.width.val = <<"1", "8", "0", ".", "0", "p", "t">>
           /\ stacked.fig.height.val = <<"6", "0", "p", "t">>
      ELSE /\ stacked.fig.width.val = <<"1", "0", "0", "p", "t">>
           /\ stacked.fig.height.val = <<"1", "1", "0", ".", "0", "p", "t">>

C6_Witness ==
    /\ Stacked
    /\ Scenario
    /\ ~stacked.separator
    /\ ~stacked.horizontally
    /\ stacked.fig.height.val = <<"1", "1", "0", ".", "0", "p", "t">>

\* C7: the viewBox stack_svg sets is "0 0 <width> <height>" with the declared
\* width and height stripped of their unit, while the width and height
\* attributes carry the "pt" suffix.
C7_ViewBoxWithoutUnits ==
    Stacked =>
      /\ EndsWithPt(stacked.fig.width.val)
      /\ EndsWithPt(stacked.fig.height.val)
      /\ stacked.fig.viewBox.val
           = <<"0", " ", "0", " ">> \o ReplacePt(stacked.fig.width.val)
             \o <<" ">> \o ReplacePt(stacked.fig.height.val)

\* C8: the body stack_svg builds is the first sub-element, then the second,
\* then exactly one line if a separator was requested and no line otherwise.
C8_BodyOrderAndSeparator ==
    Stacked =>
      LET body == stacked.fig.body
      IN  /\ Len(body) = (IF stacked.separator THEN 3 ELSE 2)
          /\ body[1].kind = "group" /\ body[1].of = 1
          /\ body[2].kind = "group" /\ body[2].of = 2
          /\ Cardinality({i \in DOMAIN body : body[i].kind = "line"})
               = (IF stacked.separator THEN 1 ELSE 0)
          /\ stacked.separator => body[3].kind = "line"

C8_Witness ==
    /\ Stacked
    /\ ~stacked.separator
    /\ stacked.horizontally
    /\ Len(stacked.fig.body) = 2

----------------------------------------------------------------------------
(* Properties of rescale (RescaleSpec) *)

\* the document declares plain decimal numbers
DeclaresDecimals(svg) ==
    /\ svg.width.type = "str" /\ IsFloatLiteral(svg.width.val)
    /\ svg.height.type = "str" /\ IsFloatLiteral(svg.height.val)

DeclaredSize(svg) == <<FloatOf(svg.width.val), FloatOf(svg.height.val)>>

\* C9: rescale with scale 1.0 of a document declaring decimal numbers builds a
\* document of the declared width and height.
C9_RescaleOnePreservesSize ==
    \A i \in DOMAIN rescaled :
      (rescaled[i].scale = 100 /\ DeclaresDecimals(rescaled[i].svg)) =>
        /\ rescaled[i].exc = "None"
        /\ rescaled[i].size = DeclaredSize(rescaled[i].svg)

\* C10: rescale by k, then rescale of the result by 1/k, builds a document of
\* the size the original declared.
C10_RescaleRoundTrip ==
    \A i \in DOMAIN rescaled :
      (/\ i + 1 \in DOMAIN rescaled
       /\ rescaled[i].scale * rescaled[i + 1].scale = 100 * 100
       /\ DeclaresDecimals(rescaled[i].svg)
       /\ rescaled[i + 1].exc = "None")
      => rescaled[i + 1].size = DeclaredSize(rescaled[i].svg)

====
